---------------------------- MODULE Spec2Model ----------------------------
(***************************************************************************)
(* A model of src/app.py (yt-extractor): the format filter and selector,   *)
(* the title sanitizer, the /extract handler and the /download relay.      *)
(*                                                                         *)
(* Conventions.                                                            *)
(*   - A Python str is a sequence of one-character strings, so that        *)
(*     lower(), strip(), startswith(), "in" and re.sub act on characters.  *)
(*   - A value that may be None (or a dict key that may be absent, read    *)
(*     with dict.get) is an option: None is <<>> and Some(v) is <<v>>.     *)
(*   - tbr is a Python float; it is kept in tenths (20009 is 2000.9).      *)
(***************************************************************************)
EXTENDS Integers, Sequences, FiniteSets, TLC

VARIABLES
    fmt,        \* is_downloadable_file: the argument
    fmtRet,     \* is_downloadable_file: None, or Some(return value)
    formats,    \* choose_best_file: the argument
    best,       \* choose_best_file: None, or Some(index returned; 0 is None)
    title,      \* sanitize_title: the argument
    safe,       \* sanitize_title: None, or Some(return value)
    dl_pc,      \* /download: "recv", "open", "read", "yield", "done", "failed", "aborted", "rejected"
    q,          \* /download: the query arguments url, title, ext (None when missing)
    dl_status,  \* /download: None, or Some(status of the response)
    filename,   \* /download: the filename of the Content-Disposition header
    remoteLen,  \* the length of the remote resource; its byte i is RemoteByte(i)
    conn,       \* the remote connection: "none", "open", "closed"
    pos,        \* bytes read from the remote connection so far
    chunk,      \* generate(): the local variable chunk
    delivered,  \* the bytes the client has received
    shortReads, \* reads that returned fewer bytes than asked for, so far
    ex_pc,      \* /extract: "recv", "top", "members", "done"
    body,       \* /extract: the "url" field of the JSON body (None when missing)
    url,        \* /extract: the local variable url
    info,       \* /extract: the local variable info
    raw_entries,\* /extract: the local variable raw_entries
    idx,        \* /extract: the position of the loop of line 634 in raw_entries
    out_entries,\* /extract: the local variable out_entries
    calls,      \* the URLs extract_info was called with, in order
    resp        \* /extract: None, or Some(response)

filterVars == <<fmt, fmtRet>>
selectVars == <<formats, best>>
sanitizeVars == <<title, safe>>
dlVars == <<dl_pc, q, dl_status, filename, remoteLen, conn, pos, chunk, delivered, shortReads>>
exVars == <<ex_pc, body, url, info, raw_entries, idx, out_entries, calls, resp>>
notDlVars == <<filterVars, selectVars, sanitizeVars, exVars>>
notExVars == <<filterVars, selectVars, sanitizeVars, dlVars>>
vars == <<filterVars, selectVars, sanitizeVars, dlVars, exVars>>

---------------------------------------------------------------------------
(* Options and Python truthiness *)

None == <<>>
Some(v) == <<v>>
Val(o) == o[1]

\* "not x" is false: x is neither None nor the empty string
TruthyStr(o) == o # None /\ Val(o) # <<>>

\* (x or "")
OrEmpty(o) == IF TruthyStr(o) THEN Val(o) ELSE <<>>

\* int(x or 0) for an optional non-negative integer
IntOr0(o) == IF o = None THEN 0 ELSE Val(o)

\* int(float(x or 0)) for an optional float kept in tenths: truncation
TruncInt(o) == IF o = None THEN 0 ELSE Val(o) \div 10

---------------------------------------------------------------------------
(* str methods *)

UpperChars == <<"A","B","C","D","E","F","G","H","I","J","K","L","M",
                "N","O","P","Q","R","S","T","U","V","W","X","Y","Z">>
LowerChars == <<"a","b","c","d","e","f","g","h","i","j","k","l","m",
                "n","o","p","q","r","s","t","u","v","w","x","y","z">>
DigitChars == <<"0","1","2","3","4","5","6","7","8","9">>

Range(s) == {s[i] : i \in 1..Len(s)}

SeqsUpTo(S, n) == UNION { [1..k -> S] : k \in 0..n }

LowerChar(c) ==
    IF \E i \in 1..Len(UpperChars) : UpperChars[i] = c
    THEN LowerChars[CHOOSE i \in 1..Len(UpperChars) : UpperChars[i] = c]
    ELSE c

\* s.lower()
Lower(s) == [i \in 1..Len(s) |-> LowerChar(s[i])]

\* sub in s
Contains(s, sub) ==
    \E i \in 1..(Len(s) - Len(sub) + 1) : SubSeq(s, i, i + Len(sub) - 1) = sub

\* s.startswith(p)
StartsWith(s, p) == Len(s) >= Len(p) /\ SubSeq(s, 1, Len(p)) = p

IsSpace(c) == c \in {" ", "\t", "\n"}

RECURSIVE LStrip(_)
LStrip(s) == IF s # <<>> /\ IsSpace(Head(s)) THEN LStrip(Tail(s)) ELSE s

RECURSIVE RStrip(_)
RStrip(s) ==
    IF s # <<>> /\ IsSpace(s[Len(s)]) THEN RStrip(SubSeq(s, 1, Len(s) - 1)) ELSE s

\* s.strip()
Strip(s) == RStrip(LStrip(s))

---------------------------------------------------------------------------
(* String literals of the source *)

S_http == <<"h","t","t","p">>
S_m3u8 == <<"m","3","u","8">>
S_dash == <<"d","a","s","h">>
S_mpd == <<"m","p","d">>
S_none == <<"n","o","n","e">>
S_mp4 == <<"m","p","4">>
S_video == <<"v","i","d","e","o">>
S_httpScheme == <<"h","t","t","p",":","/","/">>
S_httpsScheme == <<"h","t","t","p","s",":","/","/">>

S_u1 == <<"h","t","t","p","s",":","/","/","c","d","n","/","1">>
S_aac == <<"a","a","c">>
S_avc == <<"a","v","c","1">>

---------------------------------------------------------------------------
(* A candidate format: the keys of the dict the handlers read *)

Format(u, p, a, v, h, t, e) ==
    [url |-> u, protocol |-> p, acodec |-> a, vcodec |-> v, height |-> h, tbr |-> t,
     ext |-> e]

---------------------------------------------------------------------------
(* is_downloadable_file *)

\* a faulty variant: the sentinel "none" is taken for a codec
CodecUnusableNoSentinel(c) == ~TruthyStr(c)

\* the codec test of lines 528 and 530: "not c or c == 'none'"
CodecUnusable(c) == ~TruthyStr(c) \/ Val(c) = S_none

\* the transport test of line 532 on the lower-cased tag
NonHttpProto(proto) == proto # <<>> /\ ~StartsWith(proto, S_http)

IsDownloadableFile(f) ==
    LET proto == Lower(OrEmpty(f.protocol))
        ac == f.acodec
        vc == f.vcodec
    IN  IF ~TruthyStr(f.url) THEN FALSE
        ELSE IF Contains(proto, S_m3u8) \/ Contains(proto, S_dash)
                \/ Contains(proto, S_mpd) THEN FALSE
        ELSE IF CodecUnusable(ac) THEN FALSE
        ELSE IF CodecUnusable(vc) THEN FALSE
        ELSE IF NonHttpProto(proto) THEN FALSE
        ELSE TRUE

---------------------------------------------------------------------------
(* choose_best_file *)

\* a faulty variant: a later candidate of equal score replaces the earlier one
BetterOrEqual(score, best_score) == score >= best_score

\* line 546
Better(score, best_score) == score > best_score

\* line 543-545
Score(f) == IntOr0(f.height) * 1000 + TruncInt(f.tbr)

\* the loop of lines 540-548: the candidate at index i onwards, with the best
\* so far (an index into fs, 0 for None) and its score
RECURSIVE ScanBest(_, _, _, _)
ScanBest(fs, i, b, best_score) ==
    IF i > Len(fs) THEN b
    ELSE IF ~IsDownloadableFile(fs[i]) THEN ScanBest(fs, i + 1, b, best_score)
    ELSE IF Better(Score(fs[i]), best_score)
         THEN ScanBest(fs, i + 1, i, Score(fs[i]))
         ELSE ScanBest(fs, i + 1, b, best_score)

\* choose_best_file(formats): the index of the returned candidate, 0 for None
ChooseBestFile(fs) == ScanBest(fs, 1, 0, -1)

---------------------------------------------------------------------------
(* fmt_to_file: the url verbatim and the extension, "mp4" when absent or empty.
   The size string of human_size is not part of the model: no property here
   reads it. f is an index into fs, 0 for None. *)

FmtToFile(fs, f) ==
    IF f = 0 THEN None
    ELSE Some([url |-> fs[f].url,
               ext |-> IF TruthyStr(fs[f].ext) THEN Val(fs[f].ext) ELSE S_mp4])

---------------------------------------------------------------------------
(* sanitize_title *)

MaxTitleLen == 100

\* the character class [A-Za-z0-9 ._-] of line 566
AllowedChar(c) ==
    c \in Range(UpperChars) \cup Range(LowerChars) \cup Range(DigitChars)
          \cup {" ", ".", "_", "-"}

\* re.sub(r'[^A-Za-z0-9 ._-]+', '', s)
RemoveForbidden(s) == SelectSeq(s, AllowedChar)

\* a faulty variant: the title is cut one character late
TruncateLate(s) == IF Len(s) > MaxTitleLen + 1 THEN SubSeq(s, 1, MaxTitleLen + 1) ELSE s

\* lines 570-571
Truncate(s) == IF Len(s) > MaxTitleLen THEN SubSeq(s, 1, MaxTitleLen) ELSE s

SanitizeTitle(t) ==
    LET t1 == IF TruthyStr(t) THEN Val(t) ELSE S_video
        t2 == RemoveForbidden(t1)
        t3 == Strip(t2)
        t4 == IF t3 = <<>> THEN S_video ELSE t3
    IN  Truncate(t4)

---------------------------------------------------------------------------
(* /download *)

ChunkSize == 8192

\* reads that return fewer bytes than asked for, at most, in one download
MaxShortReads == 2

RemoteByte(i) == (i * 7) % 251

\* the bytes lo+1 .. lo+n of the remote resource
RemoteBytes(lo, n) == [i \in 1..n |-> RemoteByte(lo + i)]

\* request.args.get(name, default)
ArgOr(o, default) == IF o = None THEN default ELSE Val(o)

\* ext of line 707
ExtOf(o) ==
    LET e == Lower(Strip(ArgOr(o, S_mp4)))
    IN  IF e = <<>> THEN S_mp4 ELSE e

\* lines 705-713 and 723-727: the arguments are read, a missing url is
\* rejected, and the response is started with its headers; generate() has not
\* run yet
DownloadRequest ==
    /\ dl_pc = "recv"
    /\ LET u == Strip(ArgOr(q.url, <<>>))
           t == Strip(ArgOr(q.title, <<>>))
           ext == ExtOf(q.ext)
       IN  IF u = <<>>
           THEN /\ dl_status' = Some(400)
                /\ dl_pc' = "rejected"
                /\ filename' = <<>>
           ELSE /\ dl_status' = Some(200)
                /\ dl_pc' = "open"
                /\ filename' = SanitizeTitle(Some(t)) \o <<".">> \o ext
    /\ UNCHANGED <<q, remoteLen, conn, pos, chunk, delivered, shortReads, notDlVars>>

\* line 716: urlopen returns the response
OpenRemote ==
    /\ dl_pc = "open"
    /\ conn' = "open"
    /\ dl_pc' = "read"
    /\ UNCHANGED <<q, dl_status, filename, remoteLen, pos, chunk, delivered, shortReads, notDlVars>>

\* line 716: urlopen raises; nothing was opened
OpenFails ==
    /\ dl_pc = "open"
    /\ dl_pc' = "failed"
    /\ UNCHANGED <<q, dl_status, filename, remoteLen, conn, pos, chunk, delivered,
                   shortReads, notDlVars>>

\* the sizes resp.read(8192) may return with r bytes left: all that was asked
\* for (or all that is left), or fewer but at least one; nothing at the end
ShortSizes(r) == {n \in {1, ChunkSize \div 2} : n < r /\ shortReads < MaxShortReads}

\* a faulty variant: the read asks for one byte more than the chunk size
ReadSizesOver(r) ==
    IF r = 0 THEN {0}
    ELSE {IF r < ChunkSize + 1 THEN r ELSE ChunkSize + 1} \cup ShortSizes(r)

ReadSizes(r) ==
    IF r = 0 THEN {0}
    ELSE {IF r < ChunkSize THEN r ELSE ChunkSize} \cup ShortSizes(r)

\* lines 718-720: one read; an empty chunk ends the loop and the with block
\* closes the connection
ReadChunk ==
    /\ dl_pc = "read"
    /\ \E n \in ReadSizes(remoteLen - pos) :
        /\ chunk' = RemoteBytes(pos, n)
        /\ pos' = pos + n
        /\ shortReads' = IF n > 0 /\ n < ChunkSize /\ n < remoteLen - pos
                         THEN shortReads + 1 ELSE shortReads
        /\ IF n = 0
           THEN dl_pc' = "done" /\ conn' = "closed"
           ELSE dl_pc' = "yield" /\ conn' = conn
    /\ UNCHANGED <<q, dl_status, filename, remoteLen, delivered, notDlVars>>

\* line 718: the read raises; the with block closes the connection and the
\* exception leaves generate()
ReadFails ==
    /\ dl_pc = "read"
    /\ dl_pc' = "failed"
    /\ conn' = "closed"
    /\ UNCHANGED <<q, dl_status, filename, remoteLen, pos, chunk, delivered, shortReads, notDlVars>>

\* line 721: the chunk goes to the client
YieldChunk ==
    /\ dl_pc = "yield"
    /\ delivered' = delivered \o chunk
    /\ dl_pc' = "read"
    /\ UNCHANGED <<q, dl_status, filename, remoteLen, conn, pos, chunk, shortReads, notDlVars>>

\* the client goes away while generate() is suspended at line 721: the
\* generator is closed and the with block closes the connection
ClientDisconnect ==
    /\ dl_pc = "yield"
    /\ dl_pc' = "aborted"
    /\ conn' = "closed"
    /\ UNCHANGED <<q, dl_status, filename, remoteLen, pos, chunk, delivered, shortReads, notDlVars>>

---------------------------------------------------------------------------
(* What the extraction collaborator may return *)

MaxEntries == 3

S_https == <<"h","t","t","p","s">>
S_u2 == <<"h","t","t","p","s",":","/","/","c","d","n","/","2">>
S_id1 == <<"a","b","c","1">>
S_id2 == <<"x","y","z","2">>
S_page == <<"h","t","t","p","s",":","/","/","s","i","t","e","/","w","/","2">>

F_hls == Format(Some(S_u1), Some(S_m3u8), Some(S_aac), Some(S_avc), Some(1080),
                Some(50000), Some(S_mp4))
F_720 == Format(Some(S_u2), Some(S_https), Some(S_aac), Some(S_avc), Some(720),
                Some(20009), None)
F_360 == Format(Some(S_u1), Some(S_https), Some(S_aac), Some(S_avc), Some(360),
                Some(5000), Some(<<"w","e","b","m">>))

\* a format list: absent, empty, streaming-only, or with progressive files
FormatLists == { None, Some(<<>>), Some(<<F_hls>>), Some(<<F_360, F_hls, F_720>>) }

Item(i, t, u, w, fs) == [id |-> i, title |-> t, url |-> u, webpage_url |-> w, formats |-> fs]

\* the members of a collection-level listing: a null placeholder, a member
\* known by its id alone, one with its page URL and formats, one with neither
Members ==
    { None,
      Some(Item(Some(S_id1), Some("First"), None, None, None)),
      Some(Item(Some(S_id2), None, None, Some(S_page), Some(<<F_720>>))),
      Some(Item(None, Some("Lost"), None, None, None)) }

\* the results of a top-level call: one item, or a collection
TopInfos ==
    { [title |-> Some("Video"), formats |-> fs, entries |-> es] :
        fs \in FormatLists, es \in {None, Some(<<>>)} }
    \cup
    { [title |-> t, formats |-> None, entries |-> Some(es)] :
        t \in {None, Some("Mix")}, es \in SeqsUpTo(Members, MaxEntries) \ {<<>>} }

\* the results of a call on one member
MemberInfos ==
    { [id |-> i, title |-> t, formats |-> fs] :
        i \in {None, Some(S_id2)}, t \in {Some("Resolved")}, fs \in FormatLists }

---------------------------------------------------------------------------
(* /extract *)

S_watch == <<"h","t","t","p","s",":","/","/","w","w","w",".","y","o","u","t","u","b","e",
             ".","c","o","m","/","w","a","t","c","h","?","v","=">>

\* titles and reasons are plain strings: the handler only tests them for
\* truth and copies them
TruthyAtom(o) == o # None /\ Val(o) # ""

\* a response: the status and the JSON body. A key the body does not carry,
\* or carries as null, is None. An entry's src is not part of the body: it
\* is the position in raw_entries of the member the entry was built from.
Response(st, m, t, f, r, es, err) ==
    [status |-> st, mode |-> m, title |-> t, file |-> f, reason |-> r,
     entries |-> es, error |-> err]

Entry(i, t, f, r, n) == [id |-> i, title |-> t, file |-> f, reason |-> r, src |-> n]

\* a faulty variant: only the scheme name is tested, not "://"
UrlRejectedLoose(u) == u = <<>> \/ ~StartsWith(u, S_http)

\* lines 585-588
UrlRejected(u) ==
    u = <<>> \/ ~(StartsWith(u, S_httpScheme) \/ StartsWith(u, S_httpsScheme))

\* lines 582-588: the body is read and the URL validated
ExtractRequest ==
    /\ ex_pc = "recv"
    /\ LET u == Strip(OrEmpty(body))
       IN  /\ url' = u
           /\ IF UrlRejected(u)
              THEN /\ resp' = Some(Response(400, "error", None, None, None, <<>>,
                                   IF u = <<>> THEN "URL is required"
                                   ELSE "URL must start with http:// or https://"))
                   /\ ex_pc' = "done"
              ELSE /\ resp' = None
                   /\ ex_pc' = "top"
    /\ UNCHANGED <<body, info, raw_entries, idx, out_entries, calls, notExVars>>

\* lines 605-611: the reason for an exception of the top-level call. The
\* exception is what the two substring tests see of its message.
TopReason(exc) ==
    IF exc.bot
    THEN "YouTube is asking you to sign in (bot check). Upload cookies.txt from your browser and try again."
    ELSE IF exc.unavailable
    THEN "Video unavailable (deleted, private or blocked)."
    ELSE "Cannot extract info."

\* lines 601-618: extract_info raises on the top-level URL
TopCallRaises ==
    /\ ex_pc = "top"
    /\ calls' = Append(calls, url)
    /\ \E exc \in [bot : BOOLEAN, unavailable : BOOLEAN] :
        resp' = Some(Response(200, "single", Some("Unavailable video"), None,
                              Some(TopReason(exc)), <<>>, None))
    /\ ex_pc' = "done"
    /\ UNCHANGED <<body, url, info, raw_entries, idx, out_entries, notExVars>>

\* lines 620-626: extract_info returns None on the top-level URL
TopCallReturnsNone ==
    /\ ex_pc = "top"
    /\ calls' = Append(calls, url)
    /\ resp' = Some(Response(200, "single", Some("Unavailable video"), None,
                             Some("No info returned (maybe unavailable or blocked)."),
                             <<>>, None))
    /\ ex_pc' = "done"
    /\ UNCHANGED <<body, url, info, raw_entries, idx, out_entries, notExVars>>

\* lines 680-696: the response for one item
SingleResponse(entry) ==
    LET fmts == IF entry.formats = None THEN <<>> ELSE Val(entry.formats)
        b == ChooseBestFile(fmts)
    IN  IF b = 0
        THEN Response(200, "single", entry.title, None,
                      Some("No direct downloadable file (maybe sign-in or streaming-only)."),
                      <<>>, None)
        ELSE Response(200, "single", entry.title, FmtToFile(fmts, b), None, <<>>, None)

\* line 630: e is not None
IsMember(e) == e # None

\* "x or d" for a title
TitleOr(o, d) == IF TruthyAtom(o) THEN o ELSE Some(d)

\* lines 629-632 and 668-696: extract_info returns a result on the top-level
\* URL; a collection of more than one member starts the loop of line 634,
\* every other result is answered at once
TopCallReturnsInfo ==
    /\ ex_pc = "top"
    /\ calls' = Append(calls, url)
    /\ \E i \in TopInfos :
        /\ info' = Some(i)
        /\ IF i.entries # None /\ Val(i.entries) # <<>>
           THEN LET raw == [k \in 1..Len(SelectSeq(Val(i.entries), IsMember)) |->
                               Val(SelectSeq(Val(i.entries), IsMember)[k])]
                IN  /\ raw_entries' = raw
                    /\ IF Len(raw) > 1
                       THEN /\ ex_pc' = "members"
                            /\ resp' = None
                       ELSE IF Len(raw) = 1
                       THEN /\ ex_pc' = "done"
                            /\ resp' = Some(SingleResponse(raw[1]))
                       ELSE /\ ex_pc' = "done"
                            /\ resp' = Some(Response(200, "playlist",
                                          TitleOr(i.title, "Playlist"), None,
                                          Some("No playable items found in this playlist."),
                                          <<>>, None))
           ELSE /\ raw_entries' = raw_entries
                /\ ex_pc' = "done"
                /\ resp' = Some(SingleResponse(i))
    /\ idx' = 1
    /\ out_entries' = <<>>
    /\ UNCHANGED <<body, url, notExVars>>

\* line 635
VideoUrl(e) ==
    IF TruthyStr(e.url) THEN e.url
    ELSE IF TruthyStr(e.webpage_url) THEN e.webpage_url
    ELSE e.id

\* lines 638-639
CallUrl(e) ==
    LET v == Val(VideoUrl(e))
    IN  IF StartsWith(v, S_http) THEN v ELSE S_watch \o v

\* lines 636-637: a member without url, webpage_url and id is passed over
MemberSkipped ==
    /\ ex_pc = "members"
    /\ idx <= Len(raw_entries)
    /\ ~TruthyStr(VideoUrl(raw_entries[idx]))
    /\ idx' = idx + 1
    /\ UNCHANGED <<ex_pc, body, url, info, raw_entries, out_entries, calls, resp, notExVars>>

\* lines 641-651: extract_info raises on a member
MemberCallRaises ==
    /\ ex_pc = "members"
    /\ idx <= Len(raw_entries)
    /\ LET e == raw_entries[idx]
       IN  /\ TruthyStr(VideoUrl(e))
           /\ calls' = Append(calls, CallUrl(e))
           /\ out_entries' = Append(out_entries,
                  Entry(e.id, e.title, None,
                        Some("Skipped (sign-in required / unavailable)."), idx))
    /\ idx' = idx + 1
    /\ UNCHANGED <<ex_pc, body, url, info, raw_entries, resp, notExVars>>

\* lines 641-643 and 653: extract_info returns None on a member (as it does
\* under ignoreerrors when the member cannot be extracted); vinfo.get raises
\* AttributeError, which nothing catches: the request ends with status 500
MemberCallReturnsNone ==
    /\ ex_pc = "members"
    /\ idx <= Len(raw_entries)
    /\ LET e == raw_entries[idx]
       IN  /\ TruthyStr(VideoUrl(e))
           /\ calls' = Append(calls, CallUrl(e))
    /\ resp' = Some(Response(500, "error", None, None, None, <<>>,
                             "Internal Server Error"))
    /\ ex_pc' = "done"
    /\ UNCHANGED <<body, url, info, raw_entries, idx, out_entries, notExVars>>

\* lines 641-643 and 653-659: extract_info returns a result on a member
MemberCallReturnsInfo ==
    /\ ex_pc = "members"
    /\ idx <= Len(raw_entries)
    /\ LET e == raw_entries[idx]
       IN  /\ TruthyStr(VideoUrl(e))
           /\ calls' = Append(calls, CallUrl(e))
           /\ \E vinfo \in MemberInfos :
               LET fmts == IF vinfo.formats = None THEN <<>> ELSE Val(vinfo.formats)
                   b == ChooseBestFile(fmts)
               IN  out_entries' = Append(out_entries,
                       Entry(IF TruthyStr(vinfo.id) THEN vinfo.id ELSE e.id,
                             IF TruthyAtom(vinfo.title) THEN vinfo.title ELSE e.title,
                             FmtToFile(fmts, b), None, idx))
    /\ idx' = idx + 1
    /\ UNCHANGED <<ex_pc, body, url, info, raw_entries, resp, notExVars>>

\* lines 661-666: the loop is over
FinishPlaylist ==
    /\ ex_pc = "members"
    /\ idx > Len(raw_entries)
    /\ resp' = Some(Response(200, "playlist", TitleOr(Val(info).title, "Playlist"), None,
                             IF out_entries # <<>> THEN None
                             ELSE Some("All items unavailable / locked."),
                             out_entries, None))
    /\ ex_pc' = "done"
    /\ UNCHANGED <<body, url, info, raw_entries, idx, out_entries, calls, notExVars>>

---------------------------------------------------------------------------
(* Inputs of the pure functions *)

MaxFormats == 3

\* protocol tags: absent, empty, progressive, manifest-based, other transports,
\* in lower, upper and mixed case
ProtocolTags ==
    { None, Some(<<>>),
      Some(S_http), Some(<<"h","t","t","p","s">>),
      Some(<<"H","T","T","P","S">>), Some(<<"H","t","t","p">>),
      Some(S_m3u8), Some(<<"m","3","u","8","_","n","a","t","i","v","e">>),
      Some(<<"M","3","U","8">>),
      Some(<<"h","t","t","p","_","d","a","s","h","_","s","e","g","m","e","n","t","s">>),
      Some(<<"H","T","T","P","_","D","A","S","H">>),
      Some(S_mpd), Some(<<"h","t","t","p","_","m","p","d">>),
      Some(<<"f","t","p">>), Some(<<"r","t","m","p">>),
      Some(<<"x","h","t","t","p">>) }

UrlFields == { None, Some(<<>>), Some(S_u1) }
CodecFields == { None, Some(<<>>), Some(S_none), Some(<<"N","O","N","E">>), Some(S_aac), Some(S_avc) }

FilterInputs ==
    { Format(u, p, a, v, None, None, None) :
        u \in UrlFields, p \in ProtocolTags, a \in CodecFields, v \in CodecFields }

\* candidates for the selector: a progressive file or an HLS manifest, with
\* height absent, 0 or 720 and tbr absent, 0.5 or 2000.9
SelectPool ==
    { Format(Some(S_u1), p, Some(S_aac), Some(S_avc), h, t, None) :
        p \in {Some(<<"h","t","t","p","s">>), Some(S_m3u8)},
        h \in {None, Some(0), Some(720)},
        t \in {None, Some(5), Some(20009)} }

---------------------------------------------------------------------------
(* Inputs of /download and /extract *)

\* the longest run of characters on either side of a title's filler
MaxEdge == 2

\* the remote resource has up to this many bytes more than a whole number of chunks
MaxTail == 1

EdgeChars == {"a", " ", "/"}
FillChars == {"Z", " ", "*", "\t"}
FillCounts == {0, MaxTitleLen - 2, MaxTitleLen - 1, MaxTitleLen, MaxTitleLen + 1}

Fill(c, k) == [i \in 1..k |-> c]

\* titles: a run of one character, short or about as long as the limit,
\* between two short edges
TitleInputs ==
    { None,
      Some(<<"O","d","d","/","C","h","a","r","s",":","*","?",".","m","p","4"," ","T","i","t","l","e">>),
      Some(<<" ","a","-","b","_","c",".","7","\n">>) } \cup
    { Some(pre \o Fill(c, k) \o suf) :
        pre \in SeqsUpTo(EdgeChars, MaxEdge), suf \in SeqsUpTo(EdgeChars, MaxEdge),
        c \in FillChars, k \in FillCounts }

QueryUrls == { None, Some(<<" ", " ">>), Some(<<" ">> \o S_u1) }
QueryTitles ==
    { None, Some(<<>>), Some(<<" ", "M", "y", "/", "C", "l", "i", "p", ":", " ", "1", " ">>),
      Some(<<"*", "?">>), Some(<<"a", "\"", ";", "b">>) }
QueryExts ==
    { None, Some(<<>>), Some(<<" ", " ">>), Some(<<"W", "e", "b", "M">>),
      Some(<<" ", "m", "p", "4", "\n">>), Some(<<"m", "p", "4", "\"", ";", "x">>),
      Some(<<"a", "/", "b">>), Some(<<"m", " ", "p">>) }

RemoteLens ==
    UNION { (k * ChunkSize)..(k * ChunkSize + MaxTail) : k \in 0..2 } \cup {ChunkSize - 1}

ExtractBodies ==
    { None, Some(<<>>), Some(<<" ", "\n">>),
      Some(<<"h","t","t","p",":","/","/","v">>),
      Some(<<" ","h","t","t","p","s",":","/","/","v","/","1"," ","\n">>),
      Some(<<"H","T","T","P","S",":","/","/","v">>),
      Some(<<"h","t","t","p",":","/","v">>),
      Some(<<"h","t","t","p","s","v">>),
      Some(<<"f","t","p",":","/","/","v">>),
      Some(<<"v"," ","h","t","t","p",":","/","/","v">>) }

---------------------------------------------------------------------------
(* The state before anything is called, and the machines *)

IdleFilter == fmt = Format(None, None, None, None, None, None, None) /\ fmtRet = None
IdleSelect == formats = <<>> /\ best = None
IdleSanitize == title = None /\ safe = None

StartDownload ==
    /\ dl_pc = "recv"
    /\ dl_status = None
    /\ filename = <<>>
    /\ conn = "none"
    /\ pos = 0
    /\ chunk = <<>>
    /\ delivered = <<>>
    /\ shortReads = 0

IdleDownload ==
    /\ StartDownload
    /\ q = [url |-> None, title |-> None, ext |-> None]
    /\ remoteLen = 0

StartExtract ==
    /\ ex_pc = "recv"
    /\ url = <<>>
    /\ info = None
    /\ raw_entries = <<>>
    /\ idx = 1
    /\ out_entries = <<>>
    /\ calls = <<>>
    /\ resp = None

IdleExtract == StartExtract /\ body = None

\* is_downloadable_file, called once on any candidate
InitFilter ==
    /\ fmt \in FilterInputs
    /\ fmtRet = None
    /\ IdleSelect /\ IdleSanitize /\ IdleDownload /\ IdleExtract

CallIsDownloadableFile ==
    /\ fmtRet = None
    /\ fmtRet' = Some(IsDownloadableFile(fmt))
    /\ fmt' = fmt
    /\ UNCHANGED <<selectVars, sanitizeVars, dlVars, exVars>>

NextFilter == CallIsDownloadableFile

SpecFilter == InitFilter /\ [][NextFilter]_vars

\* choose_best_file, called once on any list of candidates
InitSelect ==
    /\ formats \in SeqsUpTo(SelectPool, MaxFormats)
    /\ best = None
    /\ IdleFilter /\ IdleSanitize /\ IdleDownload /\ IdleExtract

CallChooseBestFile ==
    /\ best = None
    /\ best' = Some(ChooseBestFile(formats))
    /\ formats' = formats
    /\ UNCHANGED <<filterVars, sanitizeVars, dlVars, exVars>>

NextSelect == CallChooseBestFile

SpecSelect == InitSelect /\ [][NextSelect]_vars

\* sanitize_title, called once on any title
InitSanitize ==
    /\ title \in TitleInputs
    /\ safe = None
    /\ IdleFilter /\ IdleSelect /\ IdleDownload /\ IdleExtract

CallSanitizeTitle ==
    /\ safe = None
    /\ safe' = Some(SanitizeTitle(title))
    /\ title' = title
    /\ UNCHANGED <<filterVars, selectVars, dlVars, exVars>>

NextSanitize == CallSanitizeTitle

SpecSanitize == InitSanitize /\ [][NextSanitize]_vars

\* one /download request
NextDownload ==
    \/ DownloadRequest
    \/ OpenRemote
    \/ OpenFails
    \/ ReadChunk
    \/ ReadFails
    \/ YieldChunk
    \/ ClientDisconnect

\* any query, a remote resource of a few bytes
InitDownload ==
    /\ StartDownload
    /\ q \in [url : QueryUrls, title : QueryTitles, ext : QueryExts]
    /\ remoteLen \in 0..MaxTail
    /\ IdleFilter /\ IdleSelect /\ IdleSanitize /\ IdleExtract

SpecDownload == InitDownload /\ [][NextDownload]_vars

\* one query, a remote resource of up to two chunks and a tail
InitRelay ==
    /\ StartDownload
    /\ q \in [url : QueryUrls, title : {Some(<<"c", "l", "i", "p">>)}, ext : {None}]
    /\ remoteLen \in RemoteLens
    /\ IdleFilter /\ IdleSelect /\ IdleSanitize /\ IdleExtract

SpecRelay == InitRelay /\ [][NextDownload]_vars

\* one /extract request
InitExtract ==
    /\ StartExtract
    /\ body \in ExtractBodies
    /\ IdleFilter /\ IdleSelect /\ IdleSanitize /\ IdleDownload

NextExtract ==
    \/ ExtractRequest
    \/ TopCallRaises
    \/ TopCallReturnsNone
    \/ TopCallReturnsInfo
    \/ MemberSkipped
    \/ MemberCallRaises
    \/ MemberCallReturnsNone
    \/ MemberCallReturnsInfo
    \/ FinishPlaylist

SpecExtract == InitExtract /\ [][NextExtract]_vars

---------------------------------------------------------------------------
(* C2 *)

C2_HasUrl(f) == f.url # None /\ Val(f.url) # <<>>

C2_LoweredTag(f) == Lower(IF f.protocol = None THEN <<>> ELSE Val(f.protocol))

C2_NoManifestMarker(f) ==
    \A m \in {S_m3u8, S_dash, S_mpd} : ~Contains(C2_LoweredTag(f), m)

C2_BothCodecs(f) ==
    \A c \in {f.acodec, f.vcodec} : c # None /\ Val(c) # <<>> /\ Val(c) # S_none

C2_TagAbsentOrEmpty(f) == f.protocol = None \/ Val(f.protocol) = <<>>

\* C2 as stated: is_downloadable_file(fmt) is true iff (1) the url is
\* non-empty, (2) the lower-cased protocol tag holds none of m3u8, dash, mpd,
\* (3) both codecs are present, non-empty and not "none", and (4) the protocol
\* tag -- as given -- is absent, empty or begins with "http".
C2_AsStated ==
    fmtRet # None =>
        Val(fmtRet) = ( /\ C2_HasUrl(fmt)
                        /\ C2_NoManifestMarker(fmt)
                        /\ C2_BothCodecs(fmt)
                        /\ \/ C2_TagAbsentOrEmpty(fmt)
                           \/ StartsWith(Val(fmt.protocol), S_http) )

C2_RetInv ==
    fmtRet # None =>
        /\ Val(fmtRet) \in BOOLEAN
        /\ Val(fmtRet) = ( /\ C2_HasUrl(fmt)
                           /\ C2_NoManifestMarker(fmt)
                           /\ C2_BothCodecs(fmt)
                           /\ \/ C2_TagAbsentOrEmpty(fmt)
                              \/ StartsWith(C2_LoweredTag(fmt), S_http) )

\* C2, amended: is_downloadable_file(fmt) returns a boolean, true iff (1), (2),
\* (3) hold and (4) the LOWER-CASED protocol tag is empty or begins with
\* "http" (so "HTTPS" passes); the call leaves fmt as it was.
C2_Downloadable == [](C2_RetInv) /\ [][fmt' = fmt]_filterVars

\* a candidate accepted although its tag, as given, does not begin with "http"
C2_Witness ==
    /\ fmtRet = Some(TRUE)
    /\ ~C2_TagAbsentOrEmpty(fmt)
    /\ Val(fmt.protocol) # Lower(Val(fmt.protocol))

---------------------------------------------------------------------------
(* C3 *)

C3_Passing(fs) == {i \in 1..Len(fs) : IsDownloadableFile(fs[i])}

C3_Score(f) ==
    (IF f.height = None THEN 0 ELSE Val(f.height)) * 1000
    + (IF f.tbr = None THEN 0 ELSE Val(f.tbr) \div 10)

C3_RetInv ==
    best # None =>
        LET r == Val(best)
            P == C3_Passing(formats)
        IN  /\ P = {} => r = 0
            /\ P # {} =>
                /\ r \in P
                /\ \A j \in P :
                    /\ C3_Score(formats[j]) <= C3_Score(formats[r])
                    /\ C3_Score(formats[j]) = C3_Score(formats[r]) => r <= j

\* C3: choose_best_file(formats) returns None when no candidate passes
\* is_downloadable_file, and otherwise the passing candidate of greatest score
\* height*1000 + int(tbr) (missing counted as 0), the earliest of those of equal
\* greatest score; formats is left in its order. Heights and bitrates are
\* non-negative, as the extraction collaborator reports them.
C3_BestFile == [](C3_RetInv) /\ [][formats' = formats]_selectVars

\* two passing candidates tie on the greatest score and the earlier is returned
C3_Witness ==
    /\ best # None
    /\ Val(best) # 0
    /\ \E j \in C3_Passing(formats) :
        j > Val(best) /\ C3_Score(formats[j]) = C3_Score(formats[Val(best)])

---------------------------------------------------------------------------
(* C1 *)

C1_UrlOk ==
    /\ body # None
    /\ Val(body) # <<>>
    /\ StartsWith(Val(body), S_httpScheme) \/ StartsWith(Val(body), S_httpsScheme)

\* C1: every /extract request whose URL is non-empty and starts with http://
\* or https:// is answered with status 200, whatever extract_info does on the
\* top-level call or on a member (raises, returns None, returns a collection
\* with null members).
C1_AlwaysOk == (resp # None /\ C1_UrlOk) => Val(resp).status = 200

---------------------------------------------------------------------------
(* C4 *)

C4_NonNull ==
    IF info = None \/ Val(info).entries = None THEN {}
    ELSE {k \in 1..Len(Val(Val(info).entries)) : Val(Val(info).entries)[k] # None}

\* C4: a collection result with n > 1 non-null members is answered with a
\* playlist of exactly n entries, entry i built from the i-th non-null member;
\* a member whose resolution fails gives an entry with file null and a reason,
\* and neither ends the request nor drops another member.
C4_EveryMember ==
    (ex_pc = "done" /\ Cardinality(C4_NonNull) > 1) =>
        /\ Val(resp).status = 200
        /\ Val(resp).mode = "playlist"
        /\ Len(Val(resp).entries) = Cardinality(C4_NonNull)
        /\ \A i \in 1..Len(Val(resp).entries) :
            /\ Val(resp).entries[i].src = i
            /\ Val(resp).entries[i].file = None => Val(resp).entries[i].reason # None

---------------------------------------------------------------------------
(* C5 *)

C5_ExactlyOne(item) == (item.file # None) # (item.reason # None)

\* C5: in every 200 response of /extract, the item of a "single" response and
\* every entry of a "playlist" response carries exactly one of a non-null file
\* and a non-null reason.
C5_FileXorReason ==
    (resp # None /\ Val(resp).status = 200) =>
        /\ Val(resp).mode = "single" => C5_ExactlyOne(Val(resp))
        /\ Val(resp).mode = "playlist" =>
            \A i \in 1..Len(Val(resp).entries) : C5_ExactlyOne(Val(resp).entries[i])

---------------------------------------------------------------------------
(* C6 *)

\* C6: a collection with exactly one resolvable member is answered with mode
\* "single": no response has mode "playlist" and exactly one entry.
C6_NoOneEntryPlaylist ==
    resp # None => ~(Val(resp).mode = "playlist" /\ Len(Val(resp).entries) = 1)

---------------------------------------------------------------------------
(* C7 *)

C7_Trimmed == Strip(IF body = None THEN <<>> ELSE Val(body))

C7_Malformed ==
    \/ C7_Trimmed = <<>>
    \/ /\ ~StartsWith(C7_Trimmed, S_httpScheme)
       /\ ~StartsWith(C7_Trimmed, S_httpsScheme)

\* C7: when the trimmed URL is empty or begins with neither http:// nor
\* https://, the response is 400 and extract_info is never called in that
\* request; and /extract answers 400 in no other case.
C7_ValidatedFirst ==
    /\ C7_Malformed => calls = <<>>
    /\ (C7_Malformed /\ ex_pc # "recv") => (resp # None /\ Val(resp).status = 400)
    /\ (resp # None /\ Val(resp).status = 400) => C7_Malformed

\* a URL that begins with "http" but with neither scheme is refused
C7_Witness ==
    /\ resp # None
    /\ Val(resp).status = 400
    /\ StartsWith(C7_Trimmed, S_http)
    /\ calls = <<>>

---------------------------------------------------------------------------
(* C8 *)

C8_Safe(c) ==
    c \in Range(UpperChars) \cup Range(LowerChars) \cup Range(DigitChars)
          \cup {" ", ".", "-", "_"}

C8_Ext ==
    LET e == Lower(Strip(IF q.ext = None THEN S_mp4 ELSE Val(q.ext)))
    IN  IF e = <<>> THEN S_mp4 ELSE e

\* C8: for every title and ext /download accepts, the filename of the
\* Content-Disposition header holds only letters, digits, space, dot, dash
\* and underscore, and is the sanitized title, ".", and ext, lower-cased and
\* "mp4" when empty.
C8_SafeFilename ==
    dl_status = Some(200) =>
        /\ \A i \in 1..Len(filename) : C8_Safe(filename[i])
        /\ filename = SanitizeTitle(Some(Strip(IF q.title = None THEN <<>> ELSE Val(q.title))))
                      \o <<".">> \o C8_Ext

---------------------------------------------------------------------------
(* C9 *)

C9_Allowed ==
    Range(UpperChars) \cup Range(LowerChars) \cup Range(DigitChars) \cup {" ", ".", "-", "_"}

C9_IsAllowed(c) == c \in C9_Allowed

C9_Input == IF title = None THEN <<>> ELSE Val(title)

\* the input with forbidden characters removed and surrounding whitespace trimmed
C9_Cleaned == Strip(SelectSeq(C9_Input, C9_IsAllowed))

C9_Blank == \A i \in 1..Len(C9_Input) : C9_Input[i] \notin C9_Allowed \ {" "}

\* C9: sanitize_title returns a non-empty string of at most 100 characters,
\* all of them letters, digits, space, dot, dash or underscore; it is "video"
\* when the input is empty or has no allowed non-whitespace character, and
\* otherwise the first 100 characters of the input with forbidden characters
\* removed and surrounding whitespace trimmed.
C9_Sanitized ==
    safe # None =>
        LET r == Val(safe)
        IN  /\ r # <<>>
            /\ Len(r) <= 100
            /\ \A i \in 1..Len(r) : r[i] \in C9_Allowed
            /\ C9_Blank => r = S_video
            /\ ~C9_Blank =>
                r = SubSeq(C9_Cleaned, 1, IF Len(C9_Cleaned) < 100 THEN Len(C9_Cleaned) ELSE 100)

\* a title longer than the limit, with forbidden characters, cut to the limit
C9_Witness ==
    /\ safe # None
    /\ Len(Val(safe)) = 100
    /\ Len(C9_Cleaned) > 100
    /\ \E i \in 1..Len(C9_Input) : C9_Input[i] \notin C9_Allowed

---------------------------------------------------------------------------
(* C10 *)

C10_IsPrefix(a, b) == Len(a) <= Len(b) /\ \A i \in 1..Len(a) : a[i] = b[i]

\* a is the first Len(a) bytes of the remote resource
C10_PrefixOfRemote(a) ==
    Len(a) <= remoteLen /\ \A i \in 1..Len(a) : a[i] = (i * 7) % 251

C10_State ==
    /\ C10_PrefixOfRemote(delivered)
    /\ Len(chunk) <= 8192
    /\ pos - Len(delivered) <= 8192
    /\ dl_pc = "done" => (Len(delivered) = remoteLen /\ conn = "closed")

C10_Step ==
    /\ C10_IsPrefix(delivered, delivered')
    /\ Len(delivered') - Len(delivered) <= 8192
    /\ (dl_pc = "read" /\ pos = remoteLen /\ dl_pc' # "failed") => dl_pc' = "done"

\* C10: during a relay the bytes delivered are always a prefix of the remote
\* resource's bytes, grow by chunks of at most 8192 bytes and are never taken
\* back, and the proxy holds at most one chunk not yet delivered; when a read
\* returns end-of-data without failing the relay ends, all the remote bytes
\* have been delivered and the remote connection is closed.
C10_Relay == [](C10_State) /\ [][C10_Step]_dlVars

\* a resource of more than two chunks relayed to its end
C10_Witness ==
    /\ dl_pc = "done"
    /\ remoteLen > 2 * 8192
    /\ Len(delivered) = remoteLen

---------------------------------------------------------------------------
(* C11 *)

\* the non-null members of the collection the top-level call returned
C11_NonNull ==
    IF info = None \/ Val(info).entries = None THEN <<>>
    ELSE SelectSeq(Val(Val(info).entries), IsMember)

C11_Incomplete(m) == m.formats = None \/ Val(m.formats) = <<>>

\* C11: when a collection result has exactly one non-null member and that
\* member's format list is absent or empty, the handler calls extract_info on
\* that member before it selects a format: by the time the request is
\* answered, the call log holds a second call, after the top-level one.
C11_ReResolved ==
    ( /\ ex_pc = "done"
      /\ Len(C11_NonNull) = 1
      /\ C11_Incomplete(Val(C11_NonNull[1])) )
    => ( /\ Len(calls) >= 2
         /\ calls[1] = url )

=============================================================================
